---- MODULE Spec2Model ----
(***************************************************************************)
(* cement2.core.controller: command collection (_collect), command-token   *)
(* resolution (setup) and dispatch of CementBaseController, run against a  *)
(* registry of controller classes.                                         *)
(* The argument parser, configuration and logging are collaborators of the *)
(* application object; the modelled classes declare no meta.arguments.     *)
(***************************************************************************)
EXTENDS Integers, Sequences, FiniteSets, TLC

VARIABLES registry, self, command, exposed, visible, hidden, argv,
          collected, invoked, err, last

vars == <<registry, self, command, exposed, visible, hidden, argv,
          collected, invoked, err, last>>

(* ------------------------------ bounds -------------------------------- *)
MaxControllers == 3
MaxArgv == 2

(* ------------------------- values and helpers ------------------------- *)
\* meta.stacked_on: the attribute is missing from the class's meta, is
\* declared as None, or names a controller label.
Absent == "<absent>"
NoneVal == "<None>"

EmptyMap == [k \in {} |-> k]

Range(s) == {s[i] : i \in 1..Len(s)}

Put(m, k, v) == [x \in DOMAIN m \cup {k} |-> IF x = k THEN v ELSE m[x]]

\* The command tokens an application may be started with.
Tokens == {"list", "l", "--foo", "user"}

\* str.startswith('-') on the tokens of the model.
StartsWithDash(tok) == tok \in {"--foo"}

\* @expose(hide=True, help='default command') def default: raise NotImplementedError
BaseDefault ==
    [label |-> "default", help |-> "default command", aliases |-> <<>>, hide |-> TRUE]

Fn(l, h, a, hd) == [label |-> l, help |-> h, aliases |-> a, hide |-> hd]

\* Controller classes an application may register.  funcs are the methods the
\* class itself decorates with @expose, plain its undecorated methods.
Klass(l, d, s, h, f, p) ==
    [label |-> l, description |-> d, stacked_on |-> s, hide |-> h, funcs |-> f, plain |-> p]

Classes ==
    { Klass("base", "root", Absent, FALSE,
            {Fn("list", "List things", <<"ls", "l">>, FALSE), Fn("secret", "", <<>>, TRUE)}, {}),
      Klass("user", "users", Absent, FALSE,
            {Fn("build", "user build", <<>>, FALSE)}, {}),
      Klass("admin", "admins", "base", FALSE,
            {Fn("build", "admin build", <<"b">>, FALSE), Fn("wipe", "", <<>>, TRUE)}, {}),
      Klass("deploy", "deploys", "base", FALSE,
            {Fn("build", "deploy build", <<>>, FALSE)}, {}),
      Klass("tools", "tools", NoneVal, FALSE,
            {Fn("run", "run a tool", <<>>, FALSE)}, {"default"}),
      Klass("default", "fallback app", Absent, FALSE,
            {Fn("default", "do it", <<>>, FALSE)}, {}),
      Klass("ops", "operations", Absent, TRUE,
            {Fn("list", "ops list", <<"l">>, FALSE), Fn("show", "", <<"list", "l">>, FALSE),
             Fn("secret", "", <<>>, TRUE)}, {}) }

Labels == {c.label : c \in Classes}

\* The class overrides the inherited default method.
OverridesDefault(cls) == "default" \in {f.label : f \in cls.funcs} \cup cls.plain

\* Members of an instance carrying the 'exposed' attribute.
ExposedFuncs(cls) ==
    cls.funcs \cup (IF OverridesDefault(cls) THEN {} ELSE {BaseDefault})

\* Callable attributes getattr finds on an instance of the class.
MethodNames(cls) == {f.label : f \in cls.funcs} \cup cls.plain \cup {"default"}

CallOutcomeSilent(cls, name) == "none"

\* What calling the method does: the inherited default raises.
CallOutcome(cls, name) ==
    IF name = "default" /\ ~OverridesDefault(cls) THEN "NotImplementedError" ELSE "none"

(* ------------------------- handler registry --------------------------- *)
Registries ==
    {r \in UNION {[1..n -> Classes] : n \in 1..MaxControllers} :
        \A i, j \in DOMAIN r : i # j => r[i].label # r[j].label}

\* handler.list('controller')
HandlerList(reg) == reg

\* handler.get('controller', label): the class, or a failed lookup.
HandlerHas(reg, label) == \E i \in DOMAIN reg : reg[i].label = label
HandlerGet(reg, label) == reg[CHOOSE i \in DOMAIN reg : reg[i].label = label]

(* ----------------------------- __init__ ------------------------------- *)
NewInstance ==
    [command |-> "default", visible |-> EmptyMap, hidden |-> EmptyMap, exposed |-> EmptyMap]

(* ----------------------------- _collect ------------------------------- *)
FuncDict(ctrl, f) ==
    [controller |-> ctrl, label |-> f.label, help |-> f.help,
     aliases |-> f.aliases, hide |-> f.hide]

MapOf(ctrl, fs) ==
    [l \in {f.label : f \in fs} |-> FuncDict(ctrl, CHOOSE f \in fs : f.label = l)]

Overlay(m, n) ==
    [x \in DOMAIN m \cup DOMAIN n |-> IF x \in DOMAIN n THEN n[x] ELSE m[x]]

Restrict(m, S) == [x \in S |-> m[x]]

\* Own functions that go to self.hidden / self.visible.
OwnHiddenFuncs(cls) == {f \in ExposedFuncs(cls) : f.hide}

OwnVisibleFuncsIgnoringMetaHide(cls) == {f \in ExposedFuncs(cls) : ~f.hide}

OwnVisibleFuncs(cls) ==
    IF cls.hide THEN {} ELSE {f \in ExposedFuncs(cls) : ~f.hide}

\* "collect exposed commands from ourself"
CollectOwn(cls) ==
    [exposed |-> MapOf(cls.label, ExposedFuncs(cls)),
     hidden  |-> MapOf(cls.label, OwnHiddenFuncs(cls)),
     visible |-> MapOf(cls.label, OwnVisibleFuncs(cls))]

\* The entry made for another controller that is not stacked.
ControllerDict(c) ==
    [controller |-> c.label, label |-> c.label, help |-> c.description,
     aliases |-> <<>>, hide |-> FALSE]

\* not hasattr(controller.meta, 'stacked_on')
NotStacked(c) == c.stacked_on = Absent

ExposeController(m, c) ==
    IF c.label = "base" THEN m
    ELSE IF ~c.hide
         THEN [m EXCEPT !.exposed = Put(m.exposed, c.label, ControllerDict(c)),
                        !.visible = Put(m.visible, c.label, ControllerDict(c))]
         ELSE m

\* func_dicts = controller().visible: the maps of an instance just constructed.
StackedFuncDicts(c) == NewInstance.visible

MergeStacked(m, c) ==
    LET fd == StackedFuncDicts(c)
        hid == {l \in DOMAIN fd : fd[l].hide}
        vis == IF c.hide THEN {} ELSE DOMAIN fd \ hid
    IN [exposed |-> Overlay(m.exposed, fd),
        hidden  |-> Overlay(m.hidden, Restrict(fd, hid)),
        visible |-> Overlay(m.visible, Restrict(fd, vis))]

\* One pass of "for controller in handler.list('controller')".
CollectFrom(cls, m, c) ==
    IF c.label = cls.label THEN m
    ELSE IF NotStacked(c) THEN ExposeController(m, c)
    ELSE IF c.stacked_on = cls.label THEN MergeStacked(m, c)
    ELSE m

RECURSIVE CollectOthers(_, _, _, _)
CollectOthers(cls, reg, i, m) ==
    IF i > Len(HandlerList(reg)) THEN m
    ELSE CollectOthers(cls, reg, i + 1, CollectFrom(cls, m, HandlerList(reg)[i]))

Collect(cls, reg) == CollectOthers(cls, reg, 1, CollectOwn(cls))

(* ------------------------------- setup -------------------------------- *)
\* Entries whose aliases hold the token; the scan takes the first one in the
\* dictionary's iteration order, which may be any of them.
AliasMatches(tok, exp) == {l \in DOMAIN exp : tok \in Range(exp[l].aliases)}

SetupResolveAliasToken(av, exp, cmd) ==
    IF Len(av) > 0 /\ ~StartsWithDash(av[1])
    THEN IF av[1] \in DOMAIN exp \/ AliasMatches(av[1], exp) # {}
         THEN {[command |-> av[1], argv |-> Tail(av)]}
         ELSE {[command |-> cmd, argv |-> av]}
    ELSE {[command |-> cmd, argv |-> av]}

\* "chop off a command argument if it matches an exposed command":
\* the possible (command, argv) after the block.
SetupResolve(av, exp, cmd) ==
    IF Len(av) > 0 /\ ~StartsWithDash(av[1])
    THEN IF av[1] \in DOMAIN exp
         THEN {[command |-> av[1], argv |-> Tail(av)]}
         ELSE IF AliasMatches(av[1], exp) # {}
              THEN {[command |-> exp[l].label, argv |-> Tail(av)] :
                        l \in AliasMatches(av[1], exp)}
              ELSE {[command |-> cmd, argv |-> av]}
    ELSE {[command |-> cmd, argv |-> av]}

(* ------------------------------ dispatch ------------------------------ *)
Call(cls, name, fresh) ==
    IF name \in MethodNames(cls)
    THEN [invoked |-> <<[controller |-> cls.label, method |-> name, fresh |-> fresh]>>,
          err |-> CallOutcome(cls, name)]
    ELSE [invoked |-> <<>>, err |-> "AttributeError"]

DispatchResultRaisingUnknown(cmd, exp, cls, reg) ==
    IF cmd = "" \/ cmd \notin DOMAIN exp THEN [invoked |-> <<>>, err |-> "UnknownCommand"]
    ELSE LET func == exp[cmd] IN
         IF func.controller = cls.label
         THEN Call(cls, func.label, FALSE)
         ELSE IF HandlerHas(reg, func.controller)
              THEN Call(HandlerGet(reg, func.controller), func.label, TRUE)
              ELSE [invoked |-> <<>>, err |-> "LookupFailure"]

DispatchResult(cmd, exp, cls, reg) ==
    IF cmd = "" THEN [invoked |-> <<>>, err |-> "none"]
    ELSE IF cmd \notin DOMAIN exp THEN [invoked |-> <<>>, err |-> "none"]
    ELSE LET func == exp[cmd] IN
         IF func.controller = cls.label
         THEN Call(cls, func.label, FALSE)
         ELSE IF HandlerHas(reg, func.controller)
              THEN Call(HandlerGet(reg, func.controller), func.label, TRUE)
              ELSE [invoked |-> <<>>, err |-> "LookupFailure"]

(* ------------------------------ behaviour ----------------------------- *)
ArgvInputs == UNION {[1..n -> Tokens] : n \in 0..MaxArgv}

Self == registry[self]

Init ==
    /\ registry \in Registries
    /\ argv \in ArgvInputs
    /\ self = 0
    /\ command = NewInstance.command
    /\ exposed = NewInstance.exposed
    /\ visible = NewInstance.visible
    /\ hidden = NewInstance.hidden
    /\ collected = FALSE
    /\ invoked = <<>>
    /\ err = "none"
    /\ last = "init"

\* controller(): a fresh instance of a registered class.
Construct(i) ==
    /\ self' = i
    /\ command' = NewInstance.command
    /\ exposed' = NewInstance.exposed
    /\ visible' = NewInstance.visible
    /\ hidden' = NewInstance.hidden
    /\ collected' = FALSE
    /\ invoked' = <<>>
    /\ err' = "none"
    /\ last' = "construct"
    /\ UNCHANGED <<registry, argv>>

Setup ==
    /\ self # 0
    /\ LET m == Collect(Self, registry) IN
        /\ exposed' = m.exposed
        /\ visible' = m.visible
        /\ hidden' = m.hidden
        /\ \E r \in SetupResolve(argv, m.exposed, command) :
              /\ command' = r.command
              /\ argv' = r.argv
    /\ collected' = TRUE
    /\ invoked' = <<>>
    /\ err' = "none"
    /\ last' = "setup"
    /\ UNCHANGED <<registry, self>>

Dispatch ==
    /\ self # 0
    /\ LET r == DispatchResult(command, exposed, Self, registry) IN
        /\ invoked' = r.invoked
        /\ err' = r.err
    /\ last' = "dispatch"
    /\ UNCHANGED <<registry, self, command, exposed, visible, hidden, argv, collected>>

Next ==
    \/ \E i \in DOMAIN registry : Construct(i)
    \/ Setup
    \/ Dispatch

Spec == Init /\ [][Next]_vars

(* ------------------------------ properties ---------------------------- *)
Others == {i \in DOMAIN registry : i # self}

\* The entry a command f of controller c has in a command map.
EntryOf(c, f) ==
    [controller |-> c.label, label |-> f.label, help |-> f.help,
     aliases |-> f.aliases, hide |-> f.hide]

\* The entry that stands for a whole controller c.
EntryForController(c) ==
    [controller |-> c.label, label |-> c.label, help |-> c.description,
     aliases |-> <<>>, hide |-> FALSE]

\* C1: after P's collection, every non-hidden exposed command of a controller
\* stacked on P is in P.visible and P.exposed, under the stacked controller's
\* own label.
C1_StackedCommandsVisible ==
    collected =>
        \A i \in Others :
            registry[i].stacked_on = Self.label =>
                \A f \in ExposedFuncs(registry[i]) :
                    ~f.hide =>
                        /\ f.label \in DOMAIN visible
                        /\ f.label \in DOMAIN exposed
                        /\ visible[f.label].controller = registry[i].label

\* C2: after collection, every other top-level controller (stacked_on absent
\* or None) that is not "base" and not hidden has its entry in exposed and in
\* visible; none is made for the own label, for "base" or for a hidden one.
C2_TopLevelControllersExposed ==
    collected =>
        /\ \A i \in Others :
              LET c == registry[i] IN
              (c.stacked_on \in {Absent, NoneVal} /\ c.label # "base" /\ ~c.hide) =>
                  /\ c.label \in DOMAIN exposed
                  /\ c.label \in DOMAIN visible
                  /\ exposed[c.label] = EntryForController(c)
                  /\ visible[c.label] = EntryForController(c)
        /\ \A i \in DOMAIN registry :
              LET c == registry[i] IN
              (i = self \/ c.label = "base" \/ c.hide) =>
                  ~(c.label \in DOMAIN exposed /\ exposed[c.label] = EntryForController(c))

\* C3: a dispatch of a command found in exposed invokes exactly one method,
\* on this instance when the entry is this controller's, otherwise on a fresh
\* instance of the entry's controller.
C3_DispatchInvokesExactlyOne ==
    (last = "dispatch" /\ command \in DOMAIN exposed) =>
        /\ Len(invoked) = 1
        /\ invoked[1].controller = exposed[command].controller
        /\ invoked[1].fresh = (exposed[command].controller # Self.label)

\* C4: setup's command resolution.  No token, an option token or a token that
\* is no label and no alias: argv and the command are left as they were (the
\* command of a fresh instance is "default").  A label: that one token is
\* removed and becomes the command.  Otherwise an alias: one token is removed
\* and the command is the canonical label of an entry holding the alias.
\* The tokens after the first are kept in order.
C4_CommandResolution ==
    [][ last' = "setup" =>
          LET exp == exposed'
              has == Len(argv) > 0 /\ ~StartsWithDash(argv[1])
              isLabel == has /\ argv[1] \in DOMAIN exp
              owners == IF has
                        THEN {k \in DOMAIN exp : \E n \in 1..Len(exp[k].aliases) :
                                                     exp[k].aliases[n] = argv[1]}
                        ELSE {}
          IN /\ (~has \/ (~isLabel /\ owners = {})) =>
                    /\ argv' = argv
                    /\ command' = command
                    /\ (~collected => command' = "default")
             /\ isLabel =>
                    /\ argv' = Tail(argv)
                    /\ command' = argv[1]
             /\ (has /\ ~isLabel /\ owners # {}) =>
                    /\ argv' = Tail(argv)
                    /\ \E k \in owners : command' = k /\ exp[k].label = k
      ]_vars

\* C4 witness: on the hidden controller "ops" the command "show" is only
\* reachable through its alias "l"; one token is left.
C4_Witness ==
    /\ last = "setup"
    /\ self # 0
    /\ Self.label = "ops"
    /\ command = "show"
    /\ Len(argv) = 1

\* C5: two controllers stacked on P with a non-hidden command of the same
\* label: P.exposed holds the entry of the one visited later.
C5_LaterStackedWins ==
    collected =>
        \A i, j \in Others :
            (i < j /\ registry[i].stacked_on = Self.label
                   /\ registry[j].stacked_on = Self.label) =>
                \A f \in ExposedFuncs(registry[i]), g \in ExposedFuncs(registry[j]) :
                    (f.label = g.label /\ ~f.hide /\ ~g.hide
                       /\ \A k \in Others : k > j =>
                             ~(registry[k].stacked_on = Self.label
                               /\ g.label \in {h.label : h \in ExposedFuncs(registry[k])})) =>
                        /\ g.label \in DOMAIN exposed
                        /\ exposed[g.label] = EntryOf(registry[j], g)

\* C6 as claimed: with default not overridden and the command left at
\* "default" by setup, dispatch invokes the base default on this instance and
\* ends in NotImplementedError.
C6_DefaultRaisesNotImplemented ==
    (last = "dispatch" /\ collected /\ command = "default" /\ ~OverridesDefault(Self)) =>
        /\ err = "NotImplementedError"
        /\ invoked = <<[controller |-> Self.label, method |-> "default", fresh |-> FALSE]>>

\* C6 amended: the same, when the entry exposed under "default" is still the
\* controller's own (no non-hidden top-level controller labeled "default" has
\* replaced it during collection).
C6_OwnDefaultRaisesNotImplemented ==
    (last = "dispatch" /\ collected /\ command = "default" /\ ~OverridesDefault(Self)
       /\ exposed["default"].controller = Self.label) =>
        /\ err = "NotImplementedError"
        /\ invoked = <<[controller |-> Self.label, method |-> "default", fresh |-> FALSE]>>

C6_Witness ==
    /\ last = "dispatch"
    /\ collected
    /\ command = "default"
    /\ ~OverridesDefault(Self)
    /\ exposed["default"].controller = Self.label
    /\ err = "NotImplementedError"

\* C7: a stacked_on that names no registered controller, or an entry whose
\* controller is not registered at dispatch, ends the operation in a
\* LookupFailure.
C7_DanglingReferenceFails ==
    /\ (last = "setup" /\ \E i \in DOMAIN registry :
                             /\ registry[i].stacked_on \notin {Absent, NoneVal}
                             /\ ~HandlerHas(registry, registry[i].stacked_on)) =>
           err = "LookupFailure"
    /\ (last = "dispatch" /\ command \in DOMAIN exposed
                          /\ ~HandlerHas(registry, exposed[command].controller)) =>
           err = "LookupFailure"

\* C8: a dispatch whose command is no key of exposed invokes nothing, raises
\* nothing and leaves the maps, the command and argv as they were.
C8_UnknownCommandIsNoOp ==
    [][ (last' = "dispatch" /\ command \notin DOMAIN exposed) =>
          /\ invoked' = <<>>
          /\ err' = "none"
          /\ UNCHANGED <<exposed, visible, hidden, command, argv>>
      ]_vars

\* C8 witness: after setup, the command is still no key of exposed (the class
\* overrides default without exposing it) and dispatch has run.
C8_Witness ==
    /\ last = "dispatch"
    /\ collected
    /\ command \notin DOMAIN exposed
    /\ invoked = <<>>
    /\ err = "none"

C10_MapsConsistent ==
    /\ DOMAIN visible \cap DOMAIN hidden = {}
    /\ DOMAIN visible \subseteq DOMAIN exposed
    /\ DOMAIN hidden \subseteq DOMAIN exposed
    /\ \A k \in DOMAIN visible : visible[k] = exposed[k]
    /\ \A k \in DOMAIN hidden : hidden[k] = exposed[k]

====
